---- MODULE Spec2Model ----
(***************************************************************************)
(* Model of the multi-brokerage trading orchestrator:                      *)
(*   src/src/strategy.py                    TradingApp                     *)
(*   src/src/trading_clients/base_client.py BaseClient                     *)
(*   src/src/trading_clients/*_client.py    the venue clients              *)
(*                                                                         *)
(* Money is in units of 0.0001 currency, so 0.20 is 2000 and 10.00 is      *)
(* 100000.  Python's None is [tag |-> "none"], a returned value v is       *)
(* [tag |-> "some", v |-> v] and an escaping exception is                  *)
(* [tag |-> "raise"].  Boolean results that can also be an exception are   *)
(* the strings "True", "False" and "Raise".                                *)
(***************************************************************************)
EXTENDS Integers, Sequences, FiniteSets, TLC

\* ------------------------------------------------------------------------
\* Bounds of the model
\* ------------------------------------------------------------------------
\* how many of the declared clients the model keeps
NumClients == 2
\* the longest account listing a venue returns
MaxAccounts == 3
\* the longest ticker list the operator enters
MaxTickers == 2
\* the most placement tasks one session dispatches
MaxTasks == 3

\* ------------------------------------------------------------------------
\* Program constants
\* ------------------------------------------------------------------------
\* base_client.py:77  "price + self.transaction_fee + 0.2"
SafetyBuffer == 2000
\* tradier_client.py:14  transaction_fee=0.35
TradierFee == 3500
\* base_client.py:16  transaction_fee: float = 0
DefaultFee == 0
\* base_client.py:18  concur_trades: int = 1
DefaultConcurTrades == 1
\* fennel_client.py:13  concur_trades=2
FennelConcurTrades == 2

\* strategy.py:29-38: the declared client list, in declaration order.  The
\* model keeps four of the eight classes: the first, one whose authenticate()
\* can raise, the one with concur_trades=2 and the one with a transaction fee.
DeclaredClients == <<"Robinhood", "Schwab", "Fennel", "Tradier">>

ClientClasses == {DeclaredClients[i] : i \in 1..Len(DeclaredClients)}

\* self.clients of a run of the model: NumClients of the declared clients,
\* in declaration order
Excerpts ==
    {s \in [1..NumClients -> 1..Len(DeclaredClients)] :
        \A i, j \in 1..NumClients : i < j => s[i] < s[j]}
ClientLists == {[i \in 1..NumClients |-> DeclaredClients[s[i]]] : s \in Excerpts}
Clients == 1..NumClients

\* BaseClient.__init__ arguments passed by each subclass
concur_trades(class) ==
    IF class = "Fennel" THEN FennelConcurTrades ELSE DefaultConcurTrades

transaction_fee(class) ==
    IF class = "Tradier" THEN TradierFee ELSE DefaultFee

delay(class) == class # "Fennel"

\* ------------------------------------------------------------------------
\* Values
\* ------------------------------------------------------------------------
None == [tag |-> "none"]
Some(x) == [tag |-> "some", v |-> x]
Raised == [tag |-> "raise"]

Tickers == {"XYZ", "ABC"}
\* the reference price the venue quotes (10.00)
Prices == {100000}
Sides == {"buy", "sell"}

\* what the venue answers to a quote, a holdings, a balance and an order
\* request: an answer, or a failure of the call
QuoteAnswers == {"yes", "no", "error"}
HoldingsAnswers ==
    {[st |-> "error", v |-> {}]} \cup {[st |-> "ok", v |-> S] : S \in SUBSET Tickers}
Threshold(p, f) == p + f + SafetyBuffer
BalanceValues ==
    {0} \cup {Threshold(p, transaction_fee(k)) + d :
                 p \in Prices, k \in ClientClasses, d \in {-1, 0, 1}}
BalanceAnswers ==
    {[st |-> "error", v |-> 0]} \cup {[st |-> "ok", v |-> b] : b \in BalanceValues}
OrderAnswers == {"ok", "rejected", "error"}

\* ------------------------------------------------------------------------
\* The capability methods of the venue clients
\* ------------------------------------------------------------------------
\* is_tradable: Robinhood catches every error and answers False; Fennel has
\* no handler and Schwab handles parse errors only, so a failing quote call
\* escapes; Tradier answers False
\* without accounts and lets a failing quote call escape.
is_tradable(class, has_accounts, q) ==
    CASE class = "Robinhood" -> IF q = "yes" THEN "True" ELSE "False"
      [] class \in {"Fennel", "Schwab"} ->
            IF q = "error" THEN "Raise" ELSE IF q = "yes" THEN "True" ELSE "False"
      [] OTHER ->
            IF ~has_accounts THEN "False"
            ELSE IF q = "error" THEN "Raise"
            ELSE IF q = "yes" THEN "True" ELSE "False"

\* get_stock_holdings: the mapping's key set, None, or an escaping error
get_stock_holdings(class, has_accounts, h) ==
    CASE class = "Robinhood" ->
            IF h.st = "error" \/ h.v = {} THEN None ELSE Some(h.v)
      [] class = "Fennel" ->
            IF h.st = "error" THEN None ELSE Some(h.v)
      [] OTHER ->  \* Schwab, Tradier
            IF ~has_accounts THEN Some({})
            ELSE IF h.st = "error" THEN Raised ELSE Some(h.v)

\* get_account_balance
get_account_balance(class, has_accounts, b) ==
    CASE class = "Robinhood" ->
            IF b.st = "error" THEN Some(0) ELSE Some(b.v)
      [] class = "Fennel" ->
            IF b.st = "error" THEN None ELSE Some(b.v)
      [] OTHER ->  \* Schwab, Tradier
            IF ~has_accounts THEN None
            ELSE IF b.st = "error" THEN Raised ELSE Some(b.v)

\* BaseClient.has_position: "ticker in holdings if holdings else False"
has_positionSkipUnknown(holdings, ticker) ==
    IF holdings.tag = "some" /\ holdings.v # {} THEN ticker \in holdings.v ELSE TRUE
has_position(holdings, ticker) ==
    IF holdings.tag = "some" /\ holdings.v # {} THEN ticker \in holdings.v ELSE FALSE

\* the raw placement primitives (_place_buy_orders/_place_sell_orders): every
\* subclass wraps the order call in try/except Exception and answers False on
\* a rejection or an error
place_orders_raw(class, o) == IF o = "ok" THEN "True" ELSE "False"

\* ------------------------------------------------------------------------
\* BaseClient.check_preconditions
\* ------------------------------------------------------------------------
\* the position rule (base_client.py:60-71): TRUE when it blocks the order
PositionBlocksNever(side, held) == FALSE
PositionBlocks(side, held) ==
    \/ side = "buy" /\ held
    \/ side = "sell" /\ ~held

\* the balance rule (base_client.py:73-83): TRUE when it blocks the order
BalanceBlocksStrict(balance, price, fee) ==
    \/ balance.tag = "none"
    \/ balance.tag = "some" /\ balance.v <= price + fee + SafetyBuffer
BalanceBlocks(balance, price, fee) ==
    \/ balance.tag = "none"
    \/ balance.tag = "some" /\ balance.v < price + fee + SafetyBuffer

check_preconditions(class, authenticated, has_accounts, ticker, price, side, q, m, h, b) ==
    LET tradable == is_tradable(class, has_accounts, q)
        holdings == get_stock_holdings(class, has_accounts, h)
        balance  == get_account_balance(class, has_accounts, b)
    IN  IF ~authenticated THEN "False"
        ELSE IF tradable = "Raise" THEN "Raise"
        ELSE IF tradable = "False" THEN "False"
        ELSE IF ~m THEN "False"
        ELSE IF holdings.tag = "raise" THEN "Raise"
        ELSE IF PositionBlocks(side, has_position(holdings, ticker)) THEN "False"
        ELSE IF side = "buy" /\ balance.tag = "raise" THEN "Raise"
        ELSE IF side = "buy" /\ BalanceBlocks(balance, price, transaction_fee(class))
             THEN "False"
        ELSE "True"

\* the collaborators check_preconditions awaits, in the order it awaits them
\* (base_client.py:52, 56, 60, 74)
Collaborators ==
    <<"is_tradable", "is_market_open", "get_stock_holdings", "get_account_balance">>

\* base_client.py:45-83: the collaborators one call has awaited when it
\* returns or raises; has_position (base_client.py:106-108) awaits
\* get_stock_holdings
queriedEager(class, authenticated, has_accounts, ticker, price, side, q, m, h, b) ==
    Collaborators
queried(class, authenticated, has_accounts, ticker, price, side, q, m, h, b) ==
    LET tradable == is_tradable(class, has_accounts, q)
        holdings == get_stock_holdings(class, has_accounts, h)
    IN  IF ~authenticated THEN << >>
        ELSE IF tradable # "True" THEN SubSeq(Collaborators, 1, 1)
        ELSE IF ~m THEN SubSeq(Collaborators, 1, 2)
        ELSE IF holdings.tag = "raise" THEN SubSeq(Collaborators, 1, 3)
        ELSE IF PositionBlocks(side, has_position(holdings, ticker))
             THEN SubSeq(Collaborators, 1, 3)
        ELSE IF side = "buy" THEN Collaborators
        ELSE SubSeq(Collaborators, 1, 3)

\* ------------------------------------------------------------------------
\* State
\* ------------------------------------------------------------------------
VARIABLES
    clients,                \* TradingApp.clients: the class of each client
    authenticated,          \* BaseClient.authenticated, per client
    accounts,               \* BaseClient.accounts, per client: index -> id
    initialized,            \* TradingApp.initialized
    authenticated_clients,  \* TradingApp.authenticated_clients
    pc,                     \* where the orchestrator is
    idx,                    \* the position of initialize()'s loop
    init_ret,               \* what initialize() returned: "none", "True", "False"
    auth_log,               \* the clients whose authenticate() was called, in order
    outcome,                \* per client: how its attempt ended
    response,               \* the operator's answer to the degraded-mode question
    selected_clients,       \* execute_trades: the clients traded on
    tickers,                \* execute_trades: the tickers the operator entered
    confirmed_trades,       \* execute_trades: the confirmed trades
    calls,                  \* the execute_client_trades calls of the session
    tasks,                  \* the place_trade tasks of those calls
    summary,                \* execute_trades: the reported totals
    market_open,            \* handle_execute_trades: what is_market_open() answered
    confirm_log,            \* the confirm_ticker calls made, in order
    final_confirm,          \* execute_trades: the lowered batch answer
    world,                  \* what the venues and the operator may do in this run
    suspended,              \* initialize(): the locals of an invocation that is suspended
    probe,                  \* per client: how the balance request of its verification ended
    hold,                   \* handle_account_holdings: the clients walked, the position, the requests
    shutdowns,              \* how many times shutdown() ran
    bidx,                   \* get_all_account_balances: the position of its loop
    balances,               \* get_all_account_balances: the balances just gathered
    brokerage_totals,       \* get_all_account_balances: client and subtotal, in order
    grand_total,            \* get_all_account_balances: the running grand total
    w,                      \* one call of a placement wrapper
    lookup                  \* one call of get_account_number_from_id

sessVars == <<selected_clients, tickers, confirmed_trades, summary,
              market_open, confirm_log, final_confirm>>
taskVars == <<calls, tasks>>
balVars == <<bidx, balances, brokerage_totals, grand_total>>
loopVars == <<hold, shutdowns>>

vars == <<world, lookup, suspended, probe, loopVars, balVars, clients, authenticated, accounts, initialized, authenticated_clients,
          pc, idx, init_ret, auth_log, outcome, response, w, sessVars, taskVars>>

appVars == <<world, lookup, suspended, probe, loopVars, balVars, clients, authenticated, accounts, initialized, authenticated_clients,
             pc, idx, init_ret, auth_log, outcome, response, sessVars, taskVars>>

\* no holdings report is under way
NoReport == [pc |-> "none"]

\* no balance request of a verification has been made
NoProbes == [c \in Clients |-> "none"]

\* no second invocation of initialize() exists
NoInvocation == [pc |-> "none"]

\* no menu action has been started
Idle ==
    /\ selected_clients = << >>
    /\ tickers = << >>
    /\ confirmed_trades = << >>
    /\ calls = << >>
    /\ tasks = << >>
    /\ summary = << >>
    /\ market_open = "none"
    /\ confirm_log = << >>
    /\ final_confirm = "none"
    /\ bidx = 0
    /\ balances = << >>
    /\ brokerage_totals = << >>
    /\ grand_total = 0
    /\ hold = NoReport
    /\ shutdowns = 0

\* TradingApp.__init__ and BaseClient.__init__
Constructed ==
    /\ clients \in ClientLists
    /\ authenticated = [c \in Clients |-> FALSE]
    /\ accounts = [c \in Clients |-> << >>]
    /\ initialized = FALSE
    /\ authenticated_clients = << >>
    /\ idx = 0
    /\ init_ret = "none"
    /\ auth_log = << >>
    /\ outcome = [c \in Clients |-> "pending"]
    /\ probe = NoProbes
    /\ response = "none"
    /\ suspended = NoInvocation
    /\ Idle

NoWrapperCall == [pc |-> "idle"]
NoLookup == [pc |-> "idle"]

\* the kinds of run: the venues and the operator may do anything, or they
\* behave as in the end-to-end example of the specification, or the venues
\* may also close an account between two listings, or they may do anything
\* except that an account's balance request answers the same balance until
\* an order is placed on the account
Unconstrained == "any"
EndToEnd == "end_to_end"
Relisted == "relisted"
Funded == "funded"
Free == world \in {Unconstrained, Funded}

\* ------------------------------------------------------------------------
\* BaseClient.place_buy_orders / place_sell_orders, one call
\* ------------------------------------------------------------------------
\* The arguments and the client state of the call, and what the venue will
\* answer to each request the call makes.
WrapperCalls ==
    [class : ClientClasses, authenticated : BOOLEAN, has_accounts : BOOLEAN,
     side : Sides, ticker : {"XYZ"}, price : Prices,
     q : QuoteAnswers, m : BOOLEAN, h : HoldingsAnswers, b : BalanceAnswers,
     o : OrderAnswers]

InitPlace ==
    /\ Constructed
    /\ world = Unconstrained
    /\ lookup = NoLookup
    /\ pc = "idle"
    /\ \E a \in WrapperCalls :
          w = [pc |-> "call", arg |-> a, pre |-> "none", queried |-> << >>,
               raw_called |-> FALSE, raw_ret |-> "none", delayed |-> FALSE,
               result |-> "none"]

PreconditionsOf(a) ==
    check_preconditions(a.class, a.authenticated, a.has_accounts, a.ticker, a.price,
                        a.side, a.q, a.m, a.h, a.b)

QueriedOf(a) ==
    queried(a.class, a.authenticated, a.has_accounts, a.ticker, a.price,
            a.side, a.q, a.m, a.h, a.b)

\* the step after check_preconditions returned r (base_client.py:137-138,
\* 152-153): on to the raw call, or out
AfterCheckNoReturn(r) == IF r = "Raise" THEN "return" ELSE "raw"
AfterCheck(r) == IF r = "True" THEN "raw" ELSE "return"

\* "if not await self.check_preconditions(...): return False"; an exception of
\* check_preconditions leaves the wrapper, which has no handler
WrapperCheck ==
    /\ w.pc = "call"
    /\ LET r == PreconditionsOf(w.arg)
       IN  w' = [w EXCEPT !.pre = r,
                          !.queried = QueriedOf(w.arg),
                          !.pc = AfterCheck(r),
                          !.result = IF r = "True" THEN "none" ELSE r]
    /\ UNCHANGED appVars

\* "if await self._place_buy_orders(...)"
WrapperRaw ==
    /\ w.pc = "raw"
    /\ w' = [w EXCEPT !.raw_called = TRUE,
                      !.raw_ret = place_orders_raw(w.arg.class, w.arg.o),
                      !.pc = "delay"]
    /\ UNCHANGED appVars

\* "await self.get_trade_delay()" on both paths, then the return
WrapperDelayOnSuccess ==
    /\ w.pc = "delay"
    /\ w' = [w EXCEPT !.delayed = (w.raw_ret = "True"), !.result = w.raw_ret, !.pc = "return"]
    /\ UNCHANGED appVars
WrapperDelay ==
    /\ w.pc = "delay"
    /\ w' = [w EXCEPT !.delayed = TRUE, !.result = w.raw_ret, !.pc = "return"]
    /\ UNCHANGED appVars

NextPlace == WrapperCheck \/ WrapperRaw \/ WrapperDelay

SpecPlace == InitPlace /\ [][NextPlace]_vars

\* ------------------------------------------------------------------------
\* BaseClient.get_account_number_from_id, one call
\* ------------------------------------------------------------------------
\* the identifiers a venue lists: Robinhood's get_accounts stores "Unknown"
\* for every account whose record has no account_number
\* (robinhood_client.py:75-78)
AccountIds == {"8A1", "8B2", "Unknown"}
AskedIds == AccountIds \cup {"9Z9"}

\* the account tables get_accounts can build: keys 1..n in insertion order
AccountTables == UNION {[1..n -> AccountIds] : n \in 0..MaxAccounts}

\* base_client.py:89-92: next(...) over accounts.items(), which iterates in
\* insertion order, with None as the default
RECURSIVE first_key_from(_, _, _)
first_key_from(accts, account_id, num) ==
    IF num > Len(accts) THEN None
    ELSE IF accts[num] = account_id THEN Some(num)
    ELSE first_key_from(accts, account_id, num + 1)

get_account_number_from_idLast(accts, account_id) ==
    IF \A i \in DOMAIN accts : accts[i] # account_id THEN None
    ELSE Some(CHOOSE i \in DOMAIN accts :
                  /\ accts[i] = account_id
                  /\ \A j \in DOMAIN accts : accts[j] = account_id => j <= i)
get_account_number_from_id(accts, account_id) ==
    first_key_from(accts, account_id, 1)

LookupCall ==
    /\ lookup.pc = "call"
    /\ lookup' = [lookup EXCEPT
                     !.ret = get_account_number_from_id(lookup.accts, lookup.account_id),
                     !.pc = "return"]
    /\ UNCHANGED <<world, suspended, probe, loopVars, balVars, clients, authenticated, accounts,
                   initialized, authenticated_clients, pc, idx, init_ret, auth_log, outcome,
                   response, w, sessVars, taskVars>>

NextLookup == LookupCall

InitLookup ==
    /\ Constructed
    /\ world = Unconstrained
    /\ pc = "idle"
    /\ w = NoWrapperCall
    /\ \E t \in AccountTables, a \in AskedIds :
          lookup = [pc |-> "call", accts |-> t, account_id |-> a, ret |-> None]

SpecLookup == InitLookup /\ [][NextLookup]_vars

\* ------------------------------------------------------------------------
\* authenticate() and get_accounts() of the venue clients
\* ------------------------------------------------------------------------
\* the venue's account listing for client c, n accounts long
AccountId(c, k) == 10 * c + k
Listing(c, n) == [k \in 1..n |-> AccountId(c, k)]

\* What the venue does during one authenticate(): the login call, the
\* account discovery call and the listing it would return.  "timeout" is the
\* 30 s bound of initialize() expiring while the call is awaited.
LoginAnswers == {"ok", "rejected", "error", "timeout"}
DiscoveryAnswers == {"ok", "bad_reply", "error", "timeout"}
VenueBehaviours(c) ==
    [login : LoginAnswers, discovery : DiscoveryAnswers,
     listing : {Listing(c, n) : n \in 0..MaxAccounts}]

\* the listing of a venue where the first of n accounts has been closed: the
\* accounts after it move up by one
ListingAfterClosure(c, n) == [k \in 1..(n - 1) |-> AccountId(c, k + 1)]
ClosureBehaviours(c) ==
    [login : LoginAnswers, discovery : DiscoveryAnswers,
     listing : {ListingAfterClosure(c, n) : n \in 2..MaxAccounts}]

Front(s) == SubSeq(s, 1, Len(s) - 1)

\* The result of authenticate(): ret is "True", "False", "Timeout" (cancelled
\* by the bound) or "Raise"; flag and accts are the client's fields afterwards.
AuthResult(r, f, a) == [ret |-> r, flag |-> f, accts |-> a]

\* robinhood_client.py:22-86.  get_accounts makes a blocking call, which the
\* bound cannot cancel, and swallows its errors.
authenticate_robinhood(v, flag, accts) ==
    CASE v.login = "timeout" -> AuthResult("Timeout", flag, accts)
      [] v.login \in {"rejected", "error"} -> AuthResult("False", flag, accts)
      [] OTHER ->
            IF v.discovery \in {"bad_reply", "error"}
            THEN AuthResult("True", TRUE, accts)
            ELSE AuthResult("True", TRUE, v.listing)

\* schwab_client.py:23-49.  No login call: the stored token decides.  Only
\* parse errors of the discovery are handled.
authenticate_schwab(v, flag, accts) ==
    CASE v.login # "ok" -> AuthResult("False", flag, accts)
      [] v.discovery = "ok" -> AuthResult("True", TRUE, v.listing)
      [] v.discovery = "bad_reply" -> AuthResult("True", TRUE, accts)
      [] v.discovery = "error" -> AuthResult("Raise", TRUE, accts)
      [] OTHER -> AuthResult("Timeout", TRUE, accts)

\* fennel_client.py:18-42.  get_accounts re-raises, authenticate answers False
\* with the flag already set.
authenticate_fennel(v, flag, accts) ==
    CASE v.login = "timeout" -> AuthResult("Timeout", flag, accts)
      [] v.login \in {"rejected", "error"} -> AuthResult("False", flag, accts)
      [] v.discovery = "ok" -> AuthResult("True", TRUE, v.listing)
      [] v.discovery = "timeout" -> AuthResult("Timeout", TRUE, accts)
      [] OTHER -> AuthResult("False", TRUE, accts)

\* tradier_client.py:22-74.  The listing is configured; get_accounts fills the
\* table one account at a time and its error handler answers None, so a
\* failure at the last account leaves the accounts before it.
authenticate_tradier(v, flag, accts) ==
    CASE Len(v.listing) = 0 -> AuthResult("False", flag, accts)
      [] v.login = "timeout" -> AuthResult("Timeout", flag, accts)
      [] v.login \in {"rejected", "error"} -> AuthResult("False", flag, accts)
      [] v.discovery = "ok" -> AuthResult("True", TRUE, v.listing)
      [] v.discovery = "timeout" -> AuthResult("Timeout", TRUE, Front(v.listing))
      [] OTHER -> AuthResult("True", TRUE, Front(v.listing))

authenticate(class, v, flag, accts) ==
    CASE class = "Robinhood" -> authenticate_robinhood(v, flag, accts)
      [] class = "Schwab" -> authenticate_schwab(v, flag, accts)
      [] class = "Fennel" -> authenticate_fennel(v, flag, accts)
      [] OTHER -> authenticate_tradier(v, flag, accts)

\* ------------------------------------------------------------------------
\* TradingApp._verify_account_access
\* ------------------------------------------------------------------------
\* the answer to the balance request for the first account, or the 15 s bound
\* expiring while it is awaited
ProbeAnswers == BalanceAnswers \cup {[st |-> "timeout", v |-> 0]}

\* strategy.py:125-153.  Robinhood's balance request is a blocking call that
\* the bound cannot cancel.
verify_account_access(class, accts, p) ==
    IF Len(accts) = 0 THEN FALSE
    ELSE IF p.st = "timeout" /\ class # "Robinhood" THEN FALSE
    ELSE LET balance ==
                 get_account_balance(class, TRUE,
                     IF p.st = "timeout" THEN [st |-> "error", v |-> 0] ELSE p)
         IN  balance.tag = "some"

\* list.remove(client)
RemoveNothing(s, c) == s
Remove(s, c) == SelectSeq(s, LAMBDA x : x # c)

\* str.lower() on the answers the operator can give
Responses == {"yes", "YES", "Yes", "no", "y", ""}
lowerIdentity(r) == r
lower(r) == IF r \in {"YES", "Yes"} THEN "yes" ELSE r

\* ------------------------------------------------------------------------
\* The venues and the operator during initialize()
\* ------------------------------------------------------------------------
\* In the end-to-end example backend A is the first client, with one account,
\* backend B is the client with two permits, with two accounts, and every
\* other client is refused at login; all probes answer.
ExampleListing(c) ==
    IF clients[c] = "Fennel" THEN Listing(c, 2)
    ELSE IF c = 1 THEN Listing(c, 1) ELSE Listing(c, 0)

Venue(c) ==
    IF Free THEN VenueBehaviours(c)
    ELSE IF world = Relisted THEN VenueBehaviours(c) \cup ClosureBehaviours(c)
    ELSE {[login |-> IF Len(ExampleListing(c)) > 0 THEN "ok" ELSE "rejected",
           discovery |-> "ok", listing |-> ExampleListing(c)]}

Probes(c) ==
    IF world # EndToEnd THEN ProbeAnswers
    ELSE {p \in ProbeAnswers : p.st = "ok"}

DegradedAnswers ==
    IF world # EndToEnd THEN Responses ELSE {r \in Responses : lower(r) = "yes"}

\* ------------------------------------------------------------------------
\* TradingApp.initialize
\* ------------------------------------------------------------------------
\* strategy.py:42-52
InitializeEnterUnguarded ==
    /\ pc = "init"
    /\ authenticated_clients' = << >>
    /\ idx' = 1
    /\ pc' = "auth"
    /\ UNCHANGED <<world, lookup, suspended, probe, loopVars, balVars, clients, authenticated, accounts, initialized,
                   init_ret, auth_log, outcome, response, w, sessVars, taskVars>>
InitializeEnter ==
    /\ pc = "init"
    /\ IF initialized
       THEN /\ init_ret' = "True"
            /\ pc' = "ready"
            /\ UNCHANGED <<authenticated_clients, idx>>
       ELSE /\ authenticated_clients' = << >>
            /\ idx' = 1
            /\ pc' = "auth"
            /\ UNCHANGED init_ret
    /\ UNCHANGED <<world, lookup, suspended, probe, loopVars, balVars, clients, authenticated, accounts, initialized, auth_log, outcome,
                   response, w, sessVars, taskVars>>

\* the "continue" of every failure path (strategy.py:72, 76, 84, 90): the
\* loop goes on with the next client whatever the attempt's result was
NextIdxAbort(i, ret) == IF ret \in {"Raise", "Timeout"} THEN Len(clients) + 1 ELSE i + 1
NextIdx(i, ret) == i + 1

\* strategy.py:54-76, 86-90: one client's login under the 30 s bound
Authenticate ==
    /\ pc = "auth"
    /\ idx <= Len(clients)
    /\ \E v \in Venue(idx) :
          LET r == authenticate(clients[idx], v, authenticated[idx], accounts[idx])
          IN  /\ authenticated' = [authenticated EXCEPT ![idx] = r.flag]
              /\ accounts' = [accounts EXCEPT ![idx] = r.accts]
              /\ auth_log' = Append(auth_log, idx)
              /\ IF r.ret = "True"
                 THEN /\ authenticated_clients' = Append(authenticated_clients, idx)
                      /\ pc' = "verify"
                      /\ UNCHANGED <<idx, outcome>>
                 ELSE /\ outcome' = [outcome EXCEPT ![idx] =
                              CASE r.ret = "False" -> "Failed"
                                [] r.ret = "Timeout" -> "TimedOut"
                                [] OTHER -> "Error"]
                      /\ idx' = NextIdx(idx, r.ret)
                      /\ UNCHANGED <<authenticated_clients, pc>>
    /\ UNCHANGED <<world, lookup, suspended, probe, loopVars, balVars, clients, initialized, init_ret, response, w, sessVars, taskVars>>

\* strategy.py:78-84: the verification of the client that just logged in
Verify ==
    /\ pc = "verify"
    /\ \E p \in Probes(idx) :
          /\ probe' = [probe EXCEPT ![idx] = IF Len(accounts[idx]) = 0 THEN "none" ELSE p.st]
          /\ IF verify_account_access(clients[idx], accounts[idx], p)
             THEN /\ outcome' = [outcome EXCEPT ![idx] = "Success"]
                  /\ UNCHANGED authenticated_clients
             ELSE /\ outcome' = [outcome EXCEPT ![idx] = "VerificationFailed"]
                  /\ authenticated_clients' = Remove(authenticated_clients, idx)
    /\ idx' = NextIdx(idx, "True")
    /\ pc' = "auth"
    /\ UNCHANGED <<world, lookup, suspended, loopVars, balVars, clients, authenticated, accounts, initialized, init_ret, auth_log,
                   response, w, sessVars, taskVars>>

\* strategy.py:92-113, 122-123: after the loop
AfterLoopAlwaysAsks ==
    /\ pc = "auth"
    /\ idx > Len(clients)
    /\ IF Len(authenticated_clients) = 0
       THEN /\ init_ret' = "False"
            /\ pc' = "failed"
            /\ UNCHANGED initialized
       ELSE IF Len(authenticated_clients) <= Len(clients)
       THEN /\ pc' = "prompt"
            /\ UNCHANGED <<init_ret, initialized>>
       ELSE /\ initialized' = TRUE
            /\ init_ret' = "True"
            /\ pc' = "ready"
    /\ UNCHANGED <<world, lookup, suspended, probe, loopVars, balVars, clients, authenticated, accounts, authenticated_clients, idx,
                   auth_log, outcome, response, w, sessVars, taskVars>>
AfterLoop ==
    /\ pc = "auth"
    /\ idx > Len(clients)
    /\ IF Len(authenticated_clients) = 0
       THEN /\ init_ret' = "False"
            /\ pc' = "failed"
            /\ UNCHANGED initialized
       ELSE IF Len(authenticated_clients) < Len(clients)
       THEN /\ pc' = "prompt"
            /\ UNCHANGED <<init_ret, initialized>>
       ELSE /\ initialized' = TRUE
            /\ init_ret' = "True"
            /\ pc' = "ready"
    /\ UNCHANGED <<world, lookup, suspended, probe, loopVars, balVars, clients, authenticated, accounts, authenticated_clients, idx,
                   auth_log, outcome, response, w, sessVars, taskVars>>

\* strategy.py:114-123: the degraded-mode question
DegradedPrompt ==
    /\ pc = "prompt"
    /\ \E r \in DegradedAnswers :
          /\ response' = r
          /\ IF lower(r) # "yes"
             THEN /\ init_ret' = "False"
                  /\ pc' = "failed"
                  /\ UNCHANGED initialized
             ELSE /\ initialized' = TRUE
                  /\ init_ret' = "True"
                  /\ pc' = "ready"
    /\ UNCHANGED <<world, lookup, suspended, probe, loopVars, balVars, clients, authenticated, accounts, authenticated_clients, idx,
                   auth_log, outcome, w, sessVars, taskVars>>

NextInit == InitializeEnter \/ Authenticate \/ Verify \/ AfterLoop \/ DegradedPrompt

InitApp ==
    /\ Constructed
    /\ world = Unconstrained
    /\ pc = "init"
    /\ w = NoWrapperCall
    /\ lookup = NoLookup

SpecInit == InitApp /\ [][NextInit]_vars

\* ------------------------------------------------------------------------
\* initialize() called again
\* ------------------------------------------------------------------------
\* a caller of initialize() that got its answer calls it again: the frame of
\* the first call (its loop position, its answer, its log) is gone, the
\* fields of the application and of the clients are as the call left them
InitializeAgain ==
    /\ pc \in {"ready", "failed"}
    /\ pc' = "init"
    /\ init_ret' = "none"
    /\ idx' = 0
    /\ response' = "none"
    /\ auth_log' = << >>
    /\ outcome' = [c \in Clients |-> "pending"]
    /\ probe' = NoProbes
    /\ UNCHANGED <<world, lookup, suspended, loopVars, balVars, clients, authenticated, accounts, initialized,
                   authenticated_clients, w, sessVars, taskVars>>

NextAgain == NextInit \/ InitializeAgain

\* The clients whose account listing the venue decides at each call; the
\* listing of Tradier is configuration read once at construction
\* (tradier_client.py:17), which the model does not keep between two calls.
InitAgain ==
    /\ Constructed
    /\ \A c \in Clients : clients[c] # "Tradier"
    /\ world = Relisted
    /\ pc = "init"
    /\ w = NoWrapperCall
    /\ lookup = NoLookup

SpecAgain == InitAgain /\ [][NextAgain]_vars

\* ------------------------------------------------------------------------
\* initialize() called while initialize() is running
\* ------------------------------------------------------------------------
\* the running invocation is inside one of its awaits: client.authenticate()
\* (strategy.py:61) or _verify_account_access (strategy.py:79)
AtAwait == (pc = "auth" /\ idx <= Len(clients)) \/ pc = "verify"

Returned == {"ready", "failed"}

\* the locals of the running invocation
Locals == [pc |-> pc, idx |-> idx, init_ret |-> init_ret]

\* A second task calls initialize() while the first invocation is inside an
\* await; the first stays suspended there.  initialize() has no lock and no
\* in-progress flag: the only guard is self.initialized (strategy.py:48).
SecondInitialize ==
    /\ suspended = NoInvocation
    /\ AtAwait
    /\ suspended' = Locals
    /\ pc' = "init"
    /\ idx' = 0
    /\ init_ret' = "none"
    /\ UNCHANGED <<world, lookup, probe, loopVars, balVars, clients, authenticated, accounts, initialized,
                   authenticated_clients, auth_log, outcome, response, w, sessVars,
                   taskVars>>

\* the event loop resumes the suspended invocation when the running one is
\* inside an await or has returned
Switch ==
    /\ suspended # NoInvocation
    /\ suspended.pc \notin Returned
    /\ AtAwait \/ pc \in Returned
    /\ suspended' = Locals
    /\ pc' = suspended.pc
    /\ idx' = suspended.idx
    /\ init_ret' = suspended.init_ret
    /\ UNCHANGED <<world, lookup, probe, loopVars, balVars, clients, authenticated, accounts, initialized,
                   authenticated_clients, auth_log, outcome, response, w, sessVars,
                   taskVars>>

NextOverlap == NextInit \/ SecondInitialize \/ Switch

InitOverlap ==
    /\ InitApp
    /\ \A c \in Clients : clients[c] # "Tradier"

SpecOverlap == InitOverlap /\ [][NextOverlap]_vars

\* ------------------------------------------------------------------------
\* TradingApp.run and handle_execute_trades
\* ------------------------------------------------------------------------
\* strategy.py:475-485: initialize() returned true and run() goes on to the
\* menu; the frame of the initialize() call (its loop position, its answer,
\* its log) is gone
RunStart ==
    /\ pc = "ready"
    /\ pc' = "menu"
    /\ idx' = 0
    /\ response' = "none"
    /\ auth_log' = << >>
    /\ outcome' = [c \in Clients |-> "pending"]
    /\ probe' = NoProbes
    /\ UNCHANGED <<world, lookup, suspended, loopVars, balVars, clients, authenticated, accounts, initialized, authenticated_clients,
                   init_ret, w, sessVars, taskVars>>

\* strategy.py:417-443: modes 1 and 3 take self.clients, the others the client
\* the operator picks from self.clients
select_clients(mode, choice) ==
    IF mode \in {1, 3} THEN [i \in 1..Len(clients) |-> i] ELSE <<choice>>

\* strategy.py:445-451: ticker.strip().upper() on what the operator typed
TickerInputs == {"XYZ", "xyz", " abc"}
Normalize(t) == IF t \in {"XYZ", "xyz"} THEN "XYZ" ELSE "ABC"
TickerLines(mode) ==
    UNION {[1..n -> TickerInputs] :
              n \in 1..(IF mode \in {3, 4} THEN MaxTickers ELSE 1)}
get_tickers(line) == [i \in DOMAIN line |-> Normalize(line[i])]

RECURSIVE SumLen(_, _)
SumLen(sel, i) ==
    IF i > Len(sel) THEN 0 ELSE Len(accounts[sel[i]]) + SumLen(sel, i + 1)

\* what the market clock answers, and what the operator enters at the menu:
\* in the end-to-end example the market is open and the operator trades XYZ
\* on all clients
MarketAnswers == IF Free THEN BOOLEAN ELSE {TRUE}
Modes == IF Free THEN 0..4 ELSE {1, 3}
EnteredLines(mode) ==
    IF Free THEN TickerLines(mode)
    ELSE {line \in TickerLines(mode) : get_tickers(line) = <<"XYZ">>}

\* strategy.py:354-360: the workflow goes on past the market check and the
\* mode question
ProceedsClosed(m, mode) == mode # 0
Proceeds(m, mode) == m /\ mode # 0

\* strategy.py:353-363: the market check, the mode, the clients and the
\* tickers.  Sessions that would dispatch more than MaxTasks placement tasks
\* are outside the model.
HandleExecuteTrades ==
    /\ pc = "menu"
    /\ \E m \in MarketAnswers, mode \in Modes, choice \in Clients :
          /\ market_open' = IF m THEN "open" ELSE "closed"
          /\ IF ~Proceeds(m, mode)
             THEN /\ pc' = "done"
                  /\ UNCHANGED <<selected_clients, tickers>>
             ELSE \E tks \in {get_tickers(line) : line \in EnteredLines(mode)} :
                     /\ Len(tks) * SumLen(select_clients(mode, choice), 1) <= MaxTasks
                     /\ selected_clients' = select_clients(mode, choice)
                     /\ tickers' = tks
                     /\ pc' = "confirm"
    /\ UNCHANGED <<world, lookup, suspended, probe, loopVars, balVars, clients, authenticated, accounts, initialized,
                   authenticated_clients, idx, init_ret, auth_log, outcome, response, w,
                   confirmed_trades, summary, confirm_log, final_confirm, taskVars>>

\* ------------------------------------------------------------------------
\* TradingApp.confirm_ticker and execute_trades
\* ------------------------------------------------------------------------
PriceAnswers ==
    {[st |-> "ok", v |-> p] : p \in Prices}
        \cup {[st |-> "none", v |-> 0], [st |-> "error", v |-> 0]}

\* get_stock_price: Robinhood answers 0.0 on any failure; Schwab and Fennel
\* answer None without a quote and let a failing call escape; Tradier answers
\* None without accounts
get_stock_price(class, has_accounts, pq) ==
    CASE class = "Robinhood" -> IF pq.st = "ok" THEN Some(pq.v) ELSE Some(0)
      [] class = "Tradier" /\ ~has_accounts -> None
      [] OTHER ->
            IF pq.st = "error" THEN Raised
            ELSE IF pq.st = "none" THEN None ELSE Some(pq.v)

ConfirmAnswers == {"yes", "YES", "no"}
ActionAnswers == {"buy", "BUY", "sell"}
lowerAnswer(a) == IF a = "YES" THEN "yes" ELSE IF a = "BUY" THEN "buy" ELSE a

\* what the first selected client's venue answers during the confirmation,
\* and what the operator answers: in the end-to-end example the ticker is
\* tradable at 10.00 and the operator confirms a buy
Quotes == IF Free THEN QuoteAnswers ELSE {"yes"}
PriceQuotes ==
    IF Free THEN PriceAnswers ELSE {[st |-> "ok", v |-> 100000]}
Confirms ==
    IF Free THEN ConfirmAnswers
    ELSE {a \in ConfirmAnswers : lowerAnswer(a) = "yes"}
Actions ==
    IF Free THEN ActionAnswers
    ELSE {a \in ActionAnswers : lowerAnswer(a) = "buy"}
BatchAnswers ==
    IF Free THEN Responses ELSE {r \in Responses : lower(r) = "yes"}

\* one confirm_ticker call: how it ended ("ok", "skip" for (None, None),
\* "raise"), the price it returned, what is_tradable answered, whether the
\* price was fetched and the operator's lowered answer ("none": not asked)
Confirmation(st, v, tradable, priced, confirm) ==
    [st |-> st, v |-> v, tradable |-> tradable, priced |-> priced, confirm |-> confirm]

\* strategy.py:155-175
confirm_ticker(class, has_accounts, q, pq, confirm) ==
    LET tradable == is_tradable(class, has_accounts, q)
        price == get_stock_price(class, has_accounts, pq)
    IN  IF tradable = "Raise" THEN Confirmation("raise", 0, "Raise", FALSE, "none")
        ELSE IF tradable = "False" THEN Confirmation("skip", 0, "False", FALSE, "none")
        ELSE IF price.tag # "some" THEN Confirmation("raise", 0, "True", TRUE, "none")
        ELSE IF lowerAnswer(confirm) = "yes"
             THEN Confirmation("ok", price.v, "True", TRUE, "yes")
        ELSE Confirmation("skip", price.v, "True", TRUE, lowerAnswer(confirm))

\* strategy.py:213-214: the client confirm_ticker is called on
reference_clientLast(sel) == sel[Len(sel)]
reference_client(sel) == sel[1]

\* strategy.py:215-224: what the loop does with a confirm_ticker result:
\* a confirmed ticker is appended with its price and the chosen action
append_confirmedAlways(trades, ticker, r, action) ==
    Append(trades, [ticker |-> ticker, price |-> r.v, action |-> action])
append_confirmed(trades, ticker, r, action) ==
    IF r.st = "ok"
    THEN Append(trades, [ticker |-> ticker, price |-> r.v, action |-> action])
    ELSE trades

\* strategy.py:211-224: one ticker of the confirmation loop; an exception
\* ends the workflow (strategy.py:365-368)
ConfirmTicker ==
    /\ pc = "confirm"
    /\ Len(confirm_log) < Len(tickers)
    /\ LET c == reference_client(selected_clients)
           ticker == tickers[Len(confirm_log) + 1]
       IN  \E r \in {confirm_ticker(clients[c], Len(accounts[c]) > 0, q, pq, confirm) :
                        q \in Quotes, pq \in PriceQuotes, confirm \in Confirms},
              action \in {lowerAnswer(a) : a \in Actions} :
              /\ confirm_log' = Append(confirm_log,
                                       [ticker |-> ticker, client |-> c, r |-> r])
              /\ IF r.st = "raise"
                 THEN /\ pc' = "done"
                      /\ UNCHANGED confirmed_trades
                 ELSE /\ confirmed_trades' =
                            append_confirmed(confirmed_trades, ticker, r, action)
                      /\ UNCHANGED pc
    /\ UNCHANGED <<world, lookup, suspended, probe, loopVars, balVars, clients, authenticated, accounts, initialized,
                   authenticated_clients, idx, init_ret, auth_log, outcome, response, w,
                   selected_clients, tickers, summary, market_open, final_confirm,
                   taskVars>>

\* ------------------------------------------------------------------------
\* TradingApp.execute_client_trades
\* ------------------------------------------------------------------------
TasksOf(ts, k) == {id \in DOMAIN ts : id[1] = k}
InFlightOf(ts, k) == {id \in TasksOf(ts, k) : ts[id].pc \in {"check", "raw", "delay"}}
QueuedOf(ts, k) == {id \in TasksOf(ts, k) : ts[id].pc = "queued"}

\* asyncio.Semaphore(client.concur_trades), one per call (strategy.py:188):
\* the waiting task of the call that entered first gets the permit when one
\* is free
AdmitWaiting(ts, k, cap) ==
    IF QueuedOf(ts, k) # {} /\ Cardinality(InFlightOf(ts, k)) < cap
    THEN LET id == CHOOSE x \in QueuedOf(ts, k) : \A y \in QueuedOf(ts, k) : x[2] <= y[2]
         IN  [ts EXCEPT ![id].pc = "check"]
    ELSE ts

\* a task leaves "async with semaphore" with its result
Finish(ts, id, result, cap) ==
    AdmitWaiting([ts EXCEPT ![id] = [pc |-> "done", result |-> result,
                                     market |-> "none"]],
                 id[1], cap)

\* strategy.py:238-246 and 183-198: one call per confirmed trade and selected
\* client, one task per account of the client; a call on a client without
\* accounts returns (0, 0) at once
NewCallsFirstClient(sel, trades) ==
    [k \in 1..Len(trades) |->
        [client |-> sel[1], trade |-> k,
         status |-> IF Len(accounts[sel[1]]) = 0 THEN "returned" ELSE "running",
         ret |-> <<0, 0>>]]
NewCallsNoEarlyReturn(sel, trades) ==
    [k \in 1..(Len(trades) * Len(sel)) |->
        [client |-> sel[((k - 1) % Len(sel)) + 1],
         trade |-> ((k - 1) \div Len(sel)) + 1,
         status |-> "running",
         ret |-> <<0, 0>>]]
NewCalls(sel, trades) ==
    [k \in 1..(Len(trades) * Len(sel)) |->
        LET c == sel[((k - 1) % Len(sel)) + 1]
        IN  [client |-> c,
             trade |-> ((k - 1) \div Len(sel)) + 1,
             status |-> IF Len(accounts[c]) = 0 THEN "returned" ELSE "running",
             ret |-> <<0, 0>>]]

NewTasks(cs) ==
    [id \in {x \in (DOMAIN cs) \X (1..MaxAccounts) : x[2] <= Len(accounts[cs[x[1]].client])} |->
        [pc |-> IF id[2] <= concur_trades(clients[cs[id[1]].client])
                THEN "check" ELSE "queued",
         result |-> "none", market |-> "none"]]

\* strategy.py:238: the batch goes out on this lowered answer
DispatchesUnlessNo(answer) == answer # "no"
Dispatches(answer) == answer = "yes"

\* strategy.py:226-246, 261-262: the batch confirmation and the dispatch
FinalConfirm ==
    /\ pc = "confirm"
    /\ Len(confirm_log) = Len(tickers)
    /\ IF confirmed_trades = << >>
       THEN /\ pc' = "done"
            /\ UNCHANGED <<final_confirm, taskVars>>
       ELSE \E a \in BatchAnswers :
               /\ final_confirm' = lower(a)
               /\ IF Dispatches(lower(a))
                  THEN /\ calls' = NewCalls(selected_clients, confirmed_trades)
                       /\ tasks' = NewTasks(calls')
                       /\ pc' = "gather"
                  ELSE /\ pc' = "done"
                       /\ UNCHANGED taskVars
    /\ UNCHANGED <<world, lookup, suspended, probe, loopVars, balVars, clients, authenticated, accounts, initialized,
                   authenticated_clients, idx, init_ret, auth_log, outcome, response, w,
                   selected_clients, tickers, confirmed_trades, summary, market_open,
                   confirm_log>>

TaskFrame ==
    UNCHANGED <<world, lookup, suspended, probe, loopVars, balVars, clients, authenticated, accounts, initialized, authenticated_clients,
                pc, idx, init_ret, auth_log, outcome, response, w, sessVars, calls>>

\* what the venue may answer to the requests of one placement on account i
\* of client c: in the end-to-end example the ticker is tradable, the market
\* is open, balances suffice, and the account of the first client is the
\* only one holding XYZ
StartBalance(class) == Threshold(100000, transaction_fee(class))
Spent(c, i) ==
    \E id \in DOMAIN tasks :
        /\ calls[id[1]].client = c /\ id[2] = i
        /\ tasks[id].pc = "delay" \/ tasks[id].result = "True"
FundsAnswers(c, i) ==
    IF world = Funded /\ ~Spent(c, i)
    THEN {[st |-> "ok", v |-> StartBalance(clients[c])]}
    ELSE BalanceAnswers
PlacementAnswers(c, i, price) ==
    IF Free
    THEN [q : QuoteAnswers, m : BOOLEAN, h : HoldingsAnswers, b : FundsAnswers(c, i)]
    ELSE [q : {"yes"}, m : {TRUE},
          h : {h \in HoldingsAnswers : h.st = "ok" /\ ("XYZ" \in h.v <=> c = 1)},
          b : {b \in BalanceAnswers :
                  b.st = "ok" /\ b.v >= Threshold(price, transaction_fee(clients[c]))}]

OrderResults == IF Free THEN OrderAnswers ELSE {"ok"}

\* every result check_preconditions can have for a client in the given state,
\* over the given answers of the venue, each with what the market clock had
\* answered when the result was True
PreconditionResults(class, auth, has_accounts, ticker, price, side, answers) ==
    {LET r == check_preconditions(class, auth, has_accounts, ticker, price, side,
                                  a.q, a.m, a.h, a.b)
     IN  [r |-> r,
          market |-> IF r # "True" THEN "none" ELSE IF a.m THEN "open" ELSE "closed"] :
        a \in answers}

\* base_client.py:137-138 inside place_trade (strategy.py:190-195): the
\* preconditions of one placement; False and an exception end the task
TaskCheck(id) ==
    /\ tasks[id].pc = "check"
    /\ LET call == calls[id[1]]
           c == call.client
           trade == confirmed_trades[call.trade]
       IN  \E x \in PreconditionResults(clients[c], authenticated[c],
                                        Len(accounts[c]) > 0, trade.ticker,
                                        trade.price, trade.action,
                                        PlacementAnswers(c, id[2], trade.price)) :
              tasks' = IF AfterCheck(x.r) = "raw"
                       THEN [tasks EXCEPT ![id].pc = "raw", ![id].market = x.market]
                       ELSE Finish(tasks, id, x.r, concur_trades(clients[c]))
    /\ TaskFrame

\* base_client.py:140, 155: the raw placement
TaskRaw(id) ==
    /\ tasks[id].pc = "raw"
    /\ \E r \in {place_orders_raw(clients[calls[id[1]].client], o) : o \in OrderResults} :
          tasks' = [tasks EXCEPT ![id].pc = "delay", ![id].result = r]
    /\ TaskFrame

\* base_client.py:141-147: the trade delay, then the task returns
TaskDelay(id) ==
    /\ tasks[id].pc = "delay"
    /\ tasks' = Finish(tasks, id, tasks[id].result,
                       concur_trades(clients[calls[id[1]].client]))
    /\ TaskFrame

CallFrame ==
    UNCHANGED <<world, lookup, suspended, probe, loopVars, balVars, clients, authenticated, accounts, initialized, authenticated_clients,
                pc, idx, init_ret, auth_log, outcome, response, w, sessVars, tasks>>

\* strategy.py:198-199: success_count = sum(results)
success_countAll(ts, k) == Cardinality(TasksOf(ts, k))
success_count(ts, k) ==
    Cardinality({id \in TasksOf(ts, k) : ts[id].result = "True"})

\* strategy.py:196-206: gather returned every task's result
CallReturn(k) ==
    /\ calls[k].status = "running"
    /\ \A id \in TasksOf(tasks, k) : tasks[id].pc = "done" /\ tasks[id].result # "Raise"
    /\ calls' = [calls EXCEPT ![k].status = "returned",
                              ![k].ret = <<success_count(tasks, k),
                                           Len(accounts[calls[k].client])>>]
    /\ CallFrame

\* strategy.py:198: gather re-raises the first exception of a task at once;
\* the call ends with it while the other tasks of the call go on
CallRaise(k) ==
    /\ calls[k].status = "running"
    /\ \E id \in TasksOf(tasks, k) : tasks[id].result = "Raise"
    /\ calls' = [calls EXCEPT ![k].status = "raised"]
    /\ CallFrame

RECURSIVE SumRet(_, _, _)
SumRet(cs, field, k) ==
    IF k > Len(cs) THEN 0 ELSE cs[k].ret[field] + SumRet(cs, field, k + 1)

SessionFrameResetting ==
    /\ authenticated_clients' = << >>
    /\ UNCHANGED <<world, lookup, suspended, probe, loopVars, balVars, clients, authenticated, accounts, initialized,
                   idx, init_ret, auth_log, outcome, response, w,
                   selected_clients, tickers, confirmed_trades, market_open, confirm_log,
                   final_confirm, taskVars>>
SessionFrame ==
    UNCHANGED <<world, lookup, suspended, probe, loopVars, balVars, clients, authenticated, accounts, initialized, authenticated_clients,
                idx, init_ret, auth_log, outcome, response, w,
                selected_clients, tickers, confirmed_trades, market_open, confirm_log,
                final_confirm, taskVars>>

\* strategy.py:246-260: every call returned; the totals
SessionSummary ==
    /\ pc = "gather"
    /\ \A k \in DOMAIN calls : calls[k].status = "returned"
    /\ summary' = <<SumRet(calls, 1, 1), SumRet(calls, 2, 1)>>
    /\ pc' = "done"
    /\ SessionFrame

\* strategy.py:246, 365-368: a call raised; execute_trades ends with the
\* exception, which handle_execute_trades logs
SessionRaise ==
    /\ pc = "gather"
    /\ \E k \in DOMAIN calls : calls[k].status = "raised"
    /\ pc' = "done"
    /\ UNCHANGED summary
    /\ SessionFrame

NextTrade ==
    \/ RunStart
    \/ HandleExecuteTrades
    \/ ConfirmTicker
    \/ FinalConfirm
    \/ \E id \in DOMAIN tasks : TaskCheck(id) \/ TaskRaw(id) \/ TaskDelay(id)
    \/ \E k \in DOMAIN calls : CallReturn(k) \/ CallRaise(k)
    \/ SessionSummary
    \/ SessionRaise

Next == NextInit \/ NextTrade

\* a run of the application: the first declared client and the client with
\* two permits are among self.clients
InitRun ==
    /\ InitApp
    /\ clients[1] = "Robinhood"
    /\ \E c \in Clients : clients[c] = "Fennel"

Spec == InitRun /\ [][Next]_vars

\* the same runs with venues whose accounts all start the session with the
\* balance that just covers one share at 10.00
InitFunds ==
    /\ Constructed
    /\ world = Funded
    /\ pc = "init"
    /\ w = NoWrapperCall
    /\ lookup = NoLookup
    /\ clients[1] = "Robinhood"
    /\ \E c \in Clients : clients[c] = "Fennel"

SpecFunds == InitFunds /\ [][Next]_vars

\* ------------------------------------------------------------------------
\* TradingApp.get_all_account_balances
\* ------------------------------------------------------------------------
\* what a venue answers to a balance request of the report: a failure, or a
\* balance of 50.00 or 100.00
ReportedBalances ==
    {[st |-> "error", v |-> 0]} \cup {[st |-> "ok", v |-> b] : b \in {500000, 1000000}}

\* strategy.py:284-287: "balance = balance if balance else 0.0" and the
\* running subtotal, from account i on
counted(balance) == IF balance.tag = "some" THEN balance.v ELSE 0

RECURSIVE brokerage_totalUntilNull(_, _)
brokerage_totalUntilNull(got, i) ==
    IF i > Len(got) \/ got[i].tag # "some" THEN 0
    ELSE got[i].v + brokerage_totalUntilNull(got, i + 1)
RECURSIVE brokerage_total(_, _)
brokerage_total(got, i) ==
    IF i > Len(got) THEN 0 ELSE counted(got[i]) + brokerage_total(got, i + 1)

BalancesFrame ==
    UNCHANGED <<world, lookup, suspended, probe, loopVars, clients, authenticated, accounts, initialized,
                authenticated_clients, idx, init_ret, auth_log, outcome, response, w,
                sessVars, taskVars>>

\* strategy.py:482-483, 264-266: menu choice 2
BalancesEnter ==
    /\ pc = "menu"
    /\ pc' = "balances"
    /\ bidx' = 1
    /\ balances' = << >>
    /\ brokerage_totals' = << >>
    /\ grand_total' = 0
    /\ BalancesFrame

\* strategy.py:268-293: one client of the loop: skipped without accounts,
\* else its balances are gathered and summed; an exception of a balance
\* request leaves get_all_account_balances and run(), which do not catch it
BalancesClient ==
    /\ pc = "balances"
    /\ bidx <= Len(clients)
    /\ IF accounts[bidx] = << >>
       THEN /\ bidx' = bidx + 1
            /\ UNCHANGED <<pc, balances, brokerage_totals, grand_total>>
       ELSE \E answers \in [DOMAIN accounts[bidx] -> ReportedBalances] :
               LET got == [i \in DOMAIN accounts[bidx] |->
                              get_account_balance(clients[bidx], TRUE, answers[i])]
               IN  IF \E i \in DOMAIN got : got[i].tag = "raise"
                   THEN /\ pc' = "crashed"
                        /\ UNCHANGED <<bidx, balances, brokerage_totals, grand_total>>
                   ELSE /\ balances' = got
                        /\ brokerage_totals' =
                              Append(brokerage_totals,
                                     [client |-> bidx, total |-> brokerage_total(got, 1)])
                        /\ grand_total' = grand_total + brokerage_total(got, 1)
                        /\ bidx' = bidx + 1
                        /\ UNCHANGED pc
    /\ BalancesFrame

\* strategy.py:295-307: the totals are logged and returned
BalancesReport ==
    /\ pc = "balances"
    /\ bidx > Len(clients)
    /\ pc' = "reported"
    /\ UNCHANGED <<bidx, balances, brokerage_totals, grand_total>>
    /\ BalancesFrame

NextBalances == BalancesEnter \/ BalancesClient \/ BalancesReport

\* the clients of n, a number of accounts per client, that have accounts
Holders(n) == SelectSeq([c \in Clients |-> c], LAMBDA c : n[c] > 0)

\* run() at its menu (strategy.py:475-481) after an initialize() in which the
\* clients with accounts logged in and were verified and the others were
\* refused at login
AtMenu(n) ==
    /\ clients \in ClientLists
    /\ accounts = [c \in Clients |-> Listing(c, n[c])]
    /\ authenticated = [c \in Clients |-> n[c] > 0]
    /\ authenticated_clients = Holders(n)
    /\ initialized = TRUE
    /\ init_ret = "True"
    /\ idx = 0
    /\ auth_log = << >>
    /\ outcome = [c \in Clients |-> "pending"]
    /\ probe = NoProbes
    /\ response = "none"
    /\ suspended = NoInvocation
    /\ Idle
    /\ world = Unconstrained
    /\ w = NoWrapperCall
    /\ lookup = NoLookup
    /\ pc = "menu"

InitBalances ==
    \E n \in [Clients -> 0..MaxAccounts] : Holders(n) # << >> /\ AtMenu(n)

SpecBalances == InitBalances /\ [][NextBalances]_vars

\* ------------------------------------------------------------------------
\* TradingApp.handle_account_holdings and run
\* ------------------------------------------------------------------------
\* strategy.py:379-388: holdings_mode 1 walks self.clients, mode 2 the client
\* select_clients(2) returns
HoldingsModes == {1, 2}
holdings_clients(mode, choice) ==
    IF mode = 1 THEN [i \in 1..Len(clients) |-> i] ELSE select_clients(2, choice)

HoldingsFrame ==
    UNCHANGED <<world, lookup, suspended, probe, shutdowns, balVars, clients, authenticated, accounts,
                initialized, authenticated_clients, idx, init_ret, auth_log, outcome,
                response, w, sessVars, taskVars>>

\* the client whose holdings are being reported
HoldingsClient == hold.sel[hold.k]

\* strategy.py:379-385: menu choice 4.  No field of the application or of a
\* client is written by the report.
HandleAccountHoldings ==
    /\ pc = "menu"
    /\ pc' = "holdings"
    /\ \E mode \in HoldingsModes, choice \in Clients :
          hold' = [pc |-> "walk", sel |-> holdings_clients(mode, choice), k |-> 1,
                   awaited |-> {}, logged |-> {}]
    /\ HoldingsFrame

\* strategy.py:324-327: a client without accounts is skipped with a warning
HoldingsSkip ==
    /\ pc = "holdings"
    /\ hold.k <= Len(hold.sel)
    /\ accounts[HoldingsClient] = << >>
    /\ hold' = [hold EXCEPT !.k = @ + 1]
    /\ UNCHANGED pc
    /\ HoldingsFrame

\* strategy.py:330-331: "holdings = await client.get_stock_holdings(...)" for
\* the next account of the table, inside the for loop: the request of one
\* account is awaited before the loop reaches the next account
HoldingsFetch ==
    /\ pc = "holdings"
    /\ hold.k <= Len(hold.sel)
    /\ accounts[HoldingsClient] # << >>
    /\ hold.awaited = {}
    /\ hold' = [hold EXCEPT !.awaited = {Cardinality(hold.logged) + 1}]
    /\ UNCHANGED pc
    /\ HoldingsFrame

\* strategy.py:331-337, 386-388: the request answers and the account is
\* logged; after the last account the walk moves to the next client.  An
\* exception of the request ends the walk in the handler, which logs it.
HoldingsAnswer ==
    /\ pc = "holdings"
    /\ hold.k <= Len(hold.sel)
    /\ hold.awaited # {}
    /\ \E i \in hold.awaited, h \in HoldingsAnswers :
          LET holdings == get_stock_holdings(clients[HoldingsClient], TRUE, h)
              logged == hold.logged \cup {i}
          IN  IF holdings.tag = "raise"
              THEN /\ pc' = "holdings_reported"
                   /\ hold' = [hold EXCEPT !.awaited = {}]
              ELSE /\ UNCHANGED pc
                   /\ hold' =
                         IF logged = DOMAIN accounts[HoldingsClient]
                         THEN [hold EXCEPT !.awaited = {}, !.logged = {}, !.k = @ + 1]
                         ELSE [hold EXCEPT !.awaited = @ \ {i}, !.logged = logged]
    /\ HoldingsFrame

\* strategy.py:385-386: the walk is over
HoldingsDone ==
    /\ pc = "holdings"
    /\ hold.k > Len(hold.sel)
    /\ pc' = "holdings_reported"
    /\ UNCHANGED hold
    /\ HoldingsFrame

NextHoldings ==
    HandleAccountHoldings \/ HoldingsSkip \/ HoldingsFetch \/ HoldingsAnswer \/ HoldingsDone

\* run() at its menu with at least one client holding accounts
SpecHoldings == InitBalances /\ [][NextHoldings]_vars

\* strategy.py:475-492: run(): initialize(), then one action of the menu
NextRun == Next \/ NextBalances \/ NextHoldings

SpecRun == InitRun /\ [][NextRun]_vars

\* ------------------------------------------------------------------------
\* TradingApp.run: the menu loop and shutdown
\* ------------------------------------------------------------------------
LoopFrame ==
    UNCHANGED <<world, lookup, suspended, probe, clients, authenticated, accounts, initialized,
                authenticated_clients, idx, init_ret, auth_log, outcome, response, w>>

\* strategy.py:476-478: initialize() returned false: run() logs and returns
RunAbort ==
    /\ pc = "failed"
    /\ pc' = "terminated"
    /\ UNCHANGED <<loopVars, balVars, sessVars, taskVars>>
    /\ LoopFrame

\* float(input(...)) on what the operator typed for the split multiple
SplitInputs == {"10", "2.5", "ten", ""}
parses_as_float(x) == x \in {"10", "2.5"}

\* strategy.py:370-377: menu choice 3.  The two inputs are read before the
\* try block: a split multiple that is not a number leaves the handler and
\* run() with ValueError.  The projection itself reads the account tables
\* and writes nothing; its errors are logged.
HandleProfitProjection ==
    /\ pc = "menu"
    /\ \E x \in SplitInputs :
          pc' = IF parses_as_float(x) THEN "projected" ELSE "crashed"
    /\ UNCHANGED <<loopVars, balVars, sessVars, taskVars>>
    /\ LoopFrame

\* strategy.py:480-490: the handler of the choice has returned and the loop
\* offers the menu again; the locals of the handler are gone
MenuReturn ==
    /\ pc \in {"done", "reported", "holdings_reported", "projected"}
    /\ pc' = "menu"
    /\ selected_clients' = << >>
    /\ tickers' = << >>
    /\ confirmed_trades' = << >>
    /\ calls' = << >>
    /\ tasks' = << >>
    /\ summary' = << >>
    /\ market_open' = "none"
    /\ confirm_log' = << >>
    /\ final_confirm' = "none"
    /\ bidx' = 0
    /\ balances' = << >>
    /\ brokerage_totals' = << >>
    /\ grand_total' = 0
    /\ hold' = NoReport
    /\ UNCHANGED shutdowns
    /\ LoopFrame

\* strategy.py:481-482: choice "0" breaks the loop
Exit ==
    /\ pc = "menu"
    /\ pc' = "shutdown"
    /\ UNCHANGED <<loopVars, balVars, sessVars, taskVars>>
    /\ LoopFrame

\* strategy.py:492-497: "await self.shutdown()", then run() returns
Shutdown ==
    /\ pc = "shutdown"
    /\ shutdowns' = shutdowns + 1
    /\ pc' = "terminated"
    /\ UNCHANGED <<hold, balVars, sessVars, taskVars>>
    /\ LoopFrame

NextLoop ==
    NextRun \/ HandleProfitProjection \/ MenuReturn \/ Exit \/ Shutdown \/ RunAbort

SpecLoop == InitRun /\ [][NextLoop]_vars

\* ------------------------------------------------------------------------
\* The end-to-end example: backend A with one permit and one account that
\* holds XYZ, backend B with two permits and two accounts that do not
\* ------------------------------------------------------------------------
InitExample ==
    /\ Constructed
    /\ world = EndToEnd
    /\ pc = "init"
    /\ w = NoWrapperCall
    /\ lookup = NoLookup
    /\ concur_trades(clients[1]) = 1
    /\ \E c \in Clients : concur_trades(clients[c]) = 2

\* the steps of a run of the example: nobody fails to log in and nothing
\* raises, so the degraded-mode question and the exception paths are left out
NextExample ==
    \/ InitializeEnter
    \/ Authenticate
    \/ Verify
    \/ AfterLoop
    \/ RunStart
    \/ HandleExecuteTrades
    \/ ConfirmTicker
    \/ FinalConfirm
    \/ \E id \in DOMAIN tasks : TaskCheck(id) \/ TaskRaw(id) \/ TaskDelay(id)
    \/ \E k \in DOMAIN calls : CallReturn(k)
    \/ SessionSummary

SpecExample == InitExample /\ [][NextExample]_vars

\* ------------------------------------------------------------------------
\* Properties
\* ------------------------------------------------------------------------
Range(s) == {s[i] : i \in DOMAIN s}
Succeeded == {c \in Clients : outcome[c] = "Success"}
LoopOver == pc \in {"prompt", "ready", "failed"}
Accepts(r) == r \in {"yes", "YES", "Yes"}

\* C2: when initialize() has returned and no client ended its attempt both
\* authenticated and verified, it returned false, the authenticated set is
\* empty and the initialized flag is still false.
C2_NoneAuthenticated ==
    (init_ret # "none" /\ Succeeded = {}) =>
        /\ init_ret = "False"
        /\ authenticated_clients = << >>
        /\ ~initialized

\* a run where a client logged in, failed its verification and initialize()
\* returned with nobody authenticated
C2_Witness ==
    /\ init_ret = "False"
    /\ Succeeded = {}
    /\ \E c \in Clients : outcome[c] = "VerificationFailed"

\* C3: with k of N clients successful, 0 < k < N, the degraded-mode question
\* is asked; a declining answer makes initialize() return false, an accepting
\* one makes it return true with the authenticated set exactly the k
\* successful clients, each once.
C3_DegradedMode ==
    (init_ret # "none" /\ Succeeded # {} /\ Succeeded # Clients) =>
        /\ response # "none"
        /\ ~Accepts(response) => init_ret = "False"
        /\ Accepts(response) =>
              /\ init_ret = "True"
              /\ Range(authenticated_clients) = Succeeded
              /\ Len(authenticated_clients) = Cardinality(Succeeded)

\* the operator accepted in capitals after one client failed its verification
C3_Witness ==
    /\ init_ret = "True"
    /\ response = "YES"
    /\ Succeeded # {} /\ Succeeded # Clients
    /\ \E c \in Clients : outcome[c] = "VerificationFailed"

\* C4: authenticate() is called on the clients in declaration order, each at
\* most once and only after the attempt of the one before it has ended; when
\* the loop is over every client has been attempted once, whatever the
\* attempts ended with.
C4_SequentialIsolation ==
    /\ Len(auth_log) <= Len(clients)
    /\ \A i \in DOMAIN auth_log : auth_log[i] = i
    /\ \A i \in DOMAIN auth_log : i < Len(auth_log) => outcome[i] # "pending"
    /\ LoopOver => /\ Len(auth_log) = Len(clients)
                   /\ \A c \in Clients : outcome[c] # "pending"

\* the first client's authenticate() raised, and the loop still went on to
\* the last client
C4_Witness ==
    /\ LoopOver
    /\ outcome[1] = "Error"
    /\ \E c \in Clients : outcome[c] \in {"TimedOut", "VerificationFailed", "Failed"}
    /\ auth_log[Len(auth_log)] = Len(clients)

\* what check_preconditions was given, as the claims speak of it
WArg == w.arg
WHoldings == get_stock_holdings(WArg.class, WArg.has_accounts, WArg.h)
WBalance == get_account_balance(WArg.class, WArg.has_accounts, WArg.b)
WChecked == w.pc # "idle" /\ w.pre # "none"
WEarlierPass ==
    /\ WArg.authenticated
    /\ is_tradable(WArg.class, WArg.has_accounts, WArg.q) = "True"
    /\ WArg.m
    /\ WHoldings.tag # "raise"
WFunded ==
    /\ WBalance.tag = "some"
    /\ WBalance.v >= WArg.price + transaction_fee(WArg.class) + 2000
WHeld == WHoldings.tag = "some" /\ WArg.ticker \in WHoldings.v
WNotHeld == WHoldings.tag = "some" /\ WArg.ticker \notin WHoldings.v
WUnknown == WHoldings.tag = "none"

\* C6: with the other checks passing, a held ticker blocks a buy, a ticker
\* confirmed not held blocks a sell, and unknown holdings allow a buy and
\* block a sell.
C6_PositionRule ==
    (WChecked /\ WEarlierPass) =>
        /\ (WArg.side = "buy" /\ WHeld) => w.pre = "False"
        /\ (WArg.side = "sell" /\ WNotHeld) => w.pre = "False"
        /\ (WArg.side = "sell" /\ WUnknown) => w.pre = "False"
        /\ (WArg.side = "buy" /\ WUnknown /\ WFunded) => w.pre = "True"

\* a sell on an account whose holdings could not be fetched was blocked
C6_Witness ==
    /\ WChecked /\ WEarlierPass
    /\ WArg.side = "sell" /\ WUnknown /\ WArg.h.st = "error"
    /\ w.pre = "False"

\* C7: the raw placement is called only after check_preconditions returned
\* true in the same call, a raw sell only for an account whose fetched
\* holdings contain the ticker, and a failed precondition returns false
\* without a raw call.
C7_RawOnlyAfterPass ==
    w.pc # "idle" =>
        /\ w.raw_called => w.pre = "True"
        /\ (w.raw_called /\ WArg.side = "sell") => WHeld
        /\ (w.pc = "return" /\ w.pre = "False") =>
              (~w.raw_called /\ w.result = "False" /\ ~w.delayed)

\* a raw sell was submitted for an account holding the ticker
C7_Witness ==
    /\ w.pc # "idle"
    /\ w.raw_called /\ WArg.side = "sell" /\ w.pre = "True" /\ WHeld

\* C8: for a buy with the earlier checks passing, the precondition is true
\* exactly when the balance is known and at least price + fee + 0.20.
C8_BalanceBoundary ==
    (WChecked /\ WEarlierPass /\ WArg.side = "buy" /\ ~WHeld /\ WBalance.tag # "raise") =>
        (w.pre = "True" <=>
            (WBalance.tag = "some"
             /\ WBalance.v >= WArg.price + transaction_fee(WArg.class) + 2000))

\* a buy with a fee passed with the balance exactly at the threshold
C8_Witness ==
    /\ WChecked /\ WEarlierPass /\ WArg.side = "buy"
    /\ WArg.class = "Tradier"
    /\ WBalance.tag = "some" /\ WBalance.v = 100000 + 3500 + 2000
    /\ w.pre = "True"

\* C9: a returned placement wrapper has a boolean result: no exception leaves
\* place_buy_orders/place_sell_orders.
C9_AlwaysBoolean ==
    (w.pc = "return") => w.result \in {"True", "False"}

\* the placement calls in flight on client c: inside place_buy_orders or
\* place_sell_orders, from the preconditions to the end of the trade delay
InFlightOn(c) ==
    {id \in DOMAIN tasks :
        calls[id[1]].client = c /\ tasks[id].pc \in {"check", "raw", "delay"}}

\* C1: at every moment, on every client, at most concur_trades placement
\* calls are in flight, over all the execute_client_trades calls of the
\* session.
C1_CapPerBackend ==
    \A c \in Clients : Cardinality(InFlightOn(c)) <= concur_trades(clients[c])

\* C5: a raw placement is only ever made on a member of the authenticated
\* set (a task in its trade delay has just made its raw placement).
C5_OnlyAuthenticatedPlaced ==
    \A id \in DOMAIN tasks :
        tasks[id].pc = "delay" =>
            calls[id[1]].client \in Range(authenticated_clients)

\* C10: an execute_client_trades call that has ended has returned its counts,
\* and every task of it has run to completion.
C10_JointlyAwaited ==
    \A k \in DOMAIN calls :
        calls[k].status # "running" =>
            /\ calls[k].status = "returned"
            /\ \A id \in TasksOf(tasks, k) : tasks[id].pc = "done"

\* the clients whose authenticate() call has ended
Attempted == Range(auth_log)

\* C19: a client whose attempt has ended has a non-empty account table if and
\* only if its authentication and its verification both succeeded, and at
\* every point of initialize() no member of the authenticated set has an
\* empty account table.
C19_AccountsIffVerified ==
    /\ \A c \in Clients :
          outcome[c] # "pending" => (Len(accounts[c]) > 0 <=> outcome[c] = "Success")
    /\ \A c \in Range(authenticated_clients) : Len(accounts[c]) > 0

\* C20: once authenticate() has returned or was cancelled by the bound, the
\* client's flag is false or its account table is populated, and an
\* authenticate() that returned false left the flag false.
C20_NeverHalfAuthenticated ==
    \A c \in Attempted :
        /\ authenticated[c] => Len(accounts[c]) > 0
        /\ outcome[c] = "Failed" => ~authenticated[c]

\* the placement results of call k that are True, by account index
PlacedOn(k) ==
    {i \in 1..Len(accounts[calls[k].client]) : tasks[<<k, i>>].result = "True"}

\* C11: a returned execute_client_trades call returned (successCount,
\* totalAccounts): the number of the client's accounts whose placement
\* returned true and the size of its account table, with
\* 0 <= successCount <= totalAccounts.
C11_ReturnedCounts ==
    \A k \in DOMAIN calls :
        calls[k].status = "returned" =>
            /\ calls[k].ret[2] = Len(accounts[calls[k].client])
            /\ calls[k].ret[1] = Cardinality(PlacedOn(k))
            /\ 0 <= calls[k].ret[1] /\ calls[k].ret[1] <= calls[k].ret[2]

\* a call on a client with three accounts returned (2, 3)
C11_Witness ==
    \E k \in DOMAIN calls :
        /\ calls[k].status = "returned"
        /\ calls[k].ret = <<2, 3>>
        /\ \E i \in 1..3 : tasks[<<k, i>>].result = "False"

\* C12: when the batch question was answered with anything other than yes,
\* the workflow is over and no execute_client_trades call and no placement
\* task was ever created, however many tickers were confirmed.
C12_DeclinedBatchPlacesNothing ==
    (final_confirm \notin {"none", "yes"}) =>
        /\ pc = "done"
        /\ calls = << >>
        /\ tasks = << >>
        /\ summary = << >>

\* two tickers were confirmed and the batch was declined
C12_Witness ==
    /\ final_confirm = "no"
    /\ Len(confirmed_trades) = 2
    /\ calls = << >>

\* the sum of one field of the calls' returned counts, from the last call down
RECURSIVE TotalOf(_, _)
TotalOf(field, n) ==
    IF n = 0 THEN 0 ELSE calls[n].ret[field] + TotalOf(field, n - 1)

\* C13: once the batch was accepted there is exactly one call for each pair
\* of a selected client and a confirmed trade and no other call, and the
\* reported totals are the sums of the calls' success counts and of their
\* account counts.
C13_OneCallPerPair ==
    /\ final_confirm = "yes" =>
          /\ Len(calls) = Len(selected_clients) * Len(confirmed_trades)
          /\ \A i \in DOMAIN selected_clients, t \in DOMAIN confirmed_trades :
                Cardinality({k \in DOMAIN calls :
                                calls[k].client = selected_clients[i]
                                /\ calls[k].trade = t}) = 1
    /\ final_confirm # "yes" => calls = << >>
    /\ summary # << >> =>
          /\ final_confirm = "yes"
          /\ summary = <<TotalOf(1, Len(calls)), TotalOf(2, Len(calls))>>
          /\ summary[1] = Cardinality({id \in DOMAIN tasks : tasks[id].result = "True"})
          /\ summary[2] = Cardinality(DOMAIN tasks)

\* two trades went out on two clients, in four calls, and the totals were
\* reported
C13_Witness ==
    /\ Len(selected_clients) = 2
    /\ Len(confirmed_trades) = 2
    /\ Len(calls) = 4
    /\ summary = <<1, 2>>

\* C14: in the end-to-end example exactly three placement tasks are
\* dispatched, the task of A's account is blocked without a raw placement,
\* and the workflow ends reporting 2 successes out of 3 attempted.
C14_EndToEnd ==
    /\ pc = "gather" => Cardinality(DOMAIN tasks) = 3
    /\ \A id \in DOMAIN tasks :
          calls[id[1]].client = 1 =>
              /\ tasks[id].pc \notin {"raw", "delay"}
              /\ tasks[id].pc = "done" => tasks[id].result = "False"
    /\ (pc = "done" /\ market_open # "none") =>
          /\ Cardinality(DOMAIN tasks) = 3
          /\ summary = <<2, 3>>

\* the example ran to its end: A's placement returned false and the totals
\* 2 of 3 were reported
C14_Witness ==
    /\ world = EndToEnd
    /\ pc = "done"
    /\ summary = <<2, 3>>
    /\ \E id \in DOMAIN tasks : calls[id[1]].client = 1 /\ tasks[id].result = "False"

\* the log entries of the tickers the operator confirmed
ConfirmedEntries == SelectSeq(confirm_log, LAMBDA e : e.r.confirm = "yes")

ConfirmRaised ==
    confirm_log # << >> /\ confirm_log[Len(confirm_log)].r.st = "raise"

\* C16: the confirmed trades are, in order, the tickers the operator answered
\* yes to; a declined or untradable ticker adds nothing and the loop goes on
\* to the end of the list; with no ticker confirmed the workflow ends without
\* the batch question and without any placement.
C16_ConfirmedIffYes ==
    /\ Len(confirmed_trades) = Len(ConfirmedEntries)
    /\ \A j \in DOMAIN confirmed_trades :
          confirmed_trades[j].ticker = ConfirmedEntries[j].ticker
    /\ \A k \in DOMAIN confirm_log :
          confirm_log[k].r.st = "skip" =>
              (pc = "confirm" \/ Len(confirm_log) > k \/ k = Len(tickers))
    /\ (pc \in {"gather", "done"} /\ tickers # << >> /\ ~ConfirmRaised) =>
          Len(confirm_log) = Len(tickers)
    /\ confirmed_trades = << >> =>
          (final_confirm = "none" /\ calls = << >> /\ tasks = << >>)

\* the first ticker was declined, the second confirmed and dispatched
C16_Witness ==
    /\ Len(confirm_log) = 2
    /\ confirm_log[1].r.confirm = "no"
    /\ confirm_log[2].r.confirm = "yes"
    /\ Len(confirmed_trades) = 1
    /\ confirmed_trades[1].ticker = tickers[2]
    /\ pc = "gather"

\* C17: when the market clock answered closed at the start of the workflow,
\* the workflow is over with no client selected, no ticker asked, no
\* confirmation and no placement; and a placement wrapper makes its raw call
\* only after the market clock answered open in that same call.
C17_MarketGate ==
    /\ market_open = "closed" =>
          /\ pc = "done"
          /\ selected_clients = << >> /\ tickers = << >>
          /\ confirm_log = << >> /\ final_confirm = "none"
          /\ calls = << >> /\ tasks = << >>
    /\ \A id \in DOMAIN tasks :
          tasks[id].pc \in {"raw", "delay"} => tasks[id].market = "open"

\* the workflow found the market closed and ended at once
C17_Witness ==
    /\ market_open = "closed"
    /\ pc = "done"
    /\ initialized

\* the clients before position n that have accounts, in order
RECURSIVE WithAccounts(_)
WithAccounts(n) ==
    IF n = 0 THEN << >>
    ELSE IF accounts[n] = << >> THEN WithAccounts(n - 1)
    ELSE Append(WithAccounts(n - 1), n)

\* the sum of the known balances among the first n of a gathered list
RECURSIVE SumKnown(_, _)
SumKnown(got, n) ==
    IF n = 0 THEN 0
    ELSE SumKnown(got, n - 1) + (IF got[n].tag = "none" THEN 0 ELSE got[n].v)

RECURSIVE SumTotals(_)
SumTotals(n) ==
    IF n = 0 THEN 0 ELSE SumTotals(n - 1) + brokerage_totals[n].total

\* C18: while and after get_all_account_balances runs, every client reached
\* that has accounts has one subtotal, in client order, whatever balances
\* were null; the subtotal of the client just gathered is the sum of its
\* known balances, a null balance counting as zero; and the grand total is
\* the sum of the subtotals.
C18_BalanceAggregation ==
    pc \in {"balances", "reported"} =>
        /\ [k \in DOMAIN brokerage_totals |-> brokerage_totals[k].client]
              = WithAccounts(bidx - 1)
        /\ brokerage_totals # << >> =>
              LET last == brokerage_totals[Len(brokerage_totals)]
              IN  /\ Len(balances) = Len(accounts[last.client])
                  /\ last.total = SumKnown(balances, Len(balances))
        /\ grand_total = SumTotals(Len(brokerage_totals))
        /\ pc = "reported" => bidx = Len(clients) + 1

\* the balances [100.00, null, 50.00] of the last of two clients with
\* accounts gave the subtotal 150.00 and the report was made
C18_Witness ==
    /\ pc = "reported"
    /\ Len(brokerage_totals) = 2
    /\ balances = <<Some(1000000), None, Some(500000)>>
    /\ brokerage_totals[2].total = 1500000
    /\ grand_total = brokerage_totals[1].total + 1500000
    /\ brokerage_totals[1].total > 0

\* C21: a client whose verification failed after its login succeeded is not
\* in the authenticated set and its account table is empty.
C21_FailedVerificationDropsAccounts ==
    \A c \in Clients :
        outcome[c] = "VerificationFailed" =>
            /\ c \notin Range(authenticated_clients)
            /\ accounts[c] = << >>

\* C22: a call of initialize() on an initialized application returns true at
\* once: no authenticate() is called, and the authenticated set, the
\* initialized flag and every client's flag and account table stay as they
\* were.
C22_InitializedIsNoOp ==
    [][(pc = "init" /\ initialized) =>
          /\ pc' = "ready"
          /\ init_ret' = "True"
          /\ UNCHANGED <<authenticated_clients, initialized, authenticated, accounts,
                         auth_log>>]_vars

\* initialize() was called again on an initialized application and returned
\* true without an authenticate() call
C22_Witness ==
    /\ pc = "ready"
    /\ initialized
    /\ init_ret = "True"
    /\ auth_log = << >>
    /\ authenticated_clients # << >>

\* C29: a key of a client's account table that stays in the table keeps its
\* account identifier, also when authenticate() is run again.
C29_KeysNeverReassigned ==
    [][\A c \in Clients : \A k \in DOMAIN accounts[c] :
          k \in DOMAIN accounts'[c] => accounts'[c][k] = accounts[c][k]]_vars

\* C23: an invocation of initialize() that starts while another is still
\* running leaves the authenticated set as it is and starts no
\* authentication pass.
C23_SingleInProgress ==
    [][(pc = "init" /\ suspended # NoInvocation /\ suspended.pc \notin Returned) =>
          /\ UNCHANGED authenticated_clients
          /\ pc' # "auth"]_vars

\* the checks of check_preconditions, in the claimed order, that the call's
\* arguments and the venue's answers make fail (an exception of a
\* collaborator ends the check it is awaited in)
WFails(n) ==
    CASE n = 1 -> ~WArg.authenticated
      [] n = 2 -> is_tradable(WArg.class, WArg.has_accounts, WArg.q) # "True"
      [] n = 3 -> ~WArg.m
      [] n = 4 -> \/ WHoldings.tag = "raise"
                  \/ WArg.side = "buy" /\ WHeld
                  \/ WArg.side = "sell" /\ ~WHeld
      [] OTHER -> WArg.side = "buy" /\ ~WFunded

\* the collaborators that checks 1..n await: none for the authenticated
\* flag, one each for the next three, and the balance for a buy
AwaitedThrough(n) ==
    IF n = 5 /\ WArg.side = "sell" THEN SubSeq(Collaborators, 1, 3)
    ELSE SubSeq(Collaborators, 1, n - 1)

\* C24: the collaborators a check_preconditions call awaited are those of
\* the checks up to and including the first failing one, in the order
\* is_tradable, is_market_open, get_stock_holdings, get_account_balance, and
\* none of a later check; with no failing check they are all of them (the
\* balance only for a buy).
C24_ChecksInOrder ==
    WChecked =>
        /\ \A n \in 1..5 :
              (WFails(n) /\ \A k \in 1..(n - 1) : ~WFails(k)) =>
                  w.queried = AwaitedThrough(n)
        /\ (\A n \in 1..5 : ~WFails(n)) => w.queried = AwaitedThrough(5)
        /\ w.pre = "True" <=> \A n \in 1..5 : ~WFails(n)

\* a call on an open market stopped at the untradable ticker: the market
\* clock, the holdings and the balance were not asked
C24_Witness ==
    /\ WChecked
    /\ WArg.authenticated /\ WArg.m /\ WArg.q = "no"
    /\ w.queried = <<"is_tradable">>
    /\ w.pre = "False"

\* C25: whatever the collaborators do, a check_preconditions call ends with
\* the boolean true or false, never with an exception.
C25_PreconditionsNeverRaise ==
    WChecked => w.pre \in {"True", "False"}

\* initialize() is running
InInitialize == pc \in {"init", "auth", "verify", "prompt"}

\* C26: the authenticated set and every client's authenticated flag and
\* account table change only in steps of initialize(): no step of the trade
\* workflow, of a placement, of the balance report or of the holdings report
\* changes them.
C26_WrittenOnlyByInitialize ==
    [][~InInitialize => UNCHANGED <<authenticated_clients, authenticated, accounts>>]_vars

\* a session placed an order and reported its totals
C26_Witness ==
    /\ pc = "done"
    /\ summary # << >>
    /\ summary[1] > 0
    /\ \E id \in DOMAIN tasks : tasks[id].result = "True"

\* C27: an accepted batch ends with every execute_client_trades call returned
\* and the success and attempted totals reported, whatever the placements'
\* outcomes were.
C27_NoRaiseOnPartialFailure ==
    (pc = "done" /\ final_confirm = "yes") =>
        /\ \A k \in DOMAIN calls : calls[k].status = "returned"
        /\ summary # << >>
        /\ summary[1] <= summary[2]

\* C28: the balance report always reaches its grand total and an accepted
\* batch always reaches its success/attempted report, also when a balance
\* request or a placement raises.
C28_SummariesAlwaysEmitted ==
    /\ pc # "crashed"
    /\ (pc = "done" /\ Dispatches(final_confirm)) => Len(summary) = 2

\* the permits of call k's semaphore that are taken: one per task of the call
\* inside "async with semaphore"
PermitsTaken(k) == Cardinality(InFlightOf(tasks, k))

\* C30: in every execute_client_trades call at most concur_trades tasks are
\* inside the guarded section, a task waits for a permit only while all
\* permits are taken (a task that left the section, by a return or by an
\* exception, gave its permit back), and a call that has ended has all its
\* permits back with no task of it waiting.
C30_PermitsWithinCall ==
    \A k \in DOMAIN calls :
        LET cap == concur_trades(clients[calls[k].client])
        IN  /\ PermitsTaken(k) <= cap
            /\ QueuedOf(tasks, k) # {} => PermitsTaken(k) = cap
            /\ calls[k].status # "running" =>
                  (PermitsTaken(k) = 0 /\ QueuedOf(tasks, k) = {})


\* ------------------------------------------------------------------------
\* C31: the verification of a client succeeds if and only if, within the
\* verification time bound, its account table is non-empty and the balance
\* request for its first account returned a non-null value; an empty table, a
\* null balance, an expired bound or an exception each make it fail, and the
\* clients verified before it stay in the authenticated set.
\* ------------------------------------------------------------------------
Verified(c) == outcome[c] \in {"Success", "VerificationFailed"}
AnsweredInBound(c) ==
    /\ Len(accounts[c]) > 0
    /\ probe[c] # "timeout"
    /\ get_account_balance(clients[c], TRUE, [st |-> probe[c], v |-> 0]).tag = "some"

C31_VerifiedIffBalanceInBound ==
    \A c \in Clients :
        Verified(c) =>
            /\ (outcome[c] = "Success") <=> AnsweredInBound(c)
            /\ \A d \in Clients \ {c} :
                   outcome[d] = "Success" => d \in Range(authenticated_clients)


\* ------------------------------------------------------------------------
\* C32: initialize() returns true exactly when it leaves the initialized flag
\* true; the flag is true only when every client succeeded or the operator
\* accepted degraded mode, and then the authenticated set is non-empty.  The
\* degraded-mode question is asked exactly when 0 < successes < total.
\* ------------------------------------------------------------------------
Asked == pc = "prompt" \/ response # "none"
Partial == 0 < Len(authenticated_clients) /\ Len(authenticated_clients) < Len(clients)

C32_FlagAndQuestion ==
    /\ init_ret # "none" => ((init_ret = "True") <=> initialized)
    /\ init_ret = "none" => ~initialized
    /\ initialized =>
          /\ Len(authenticated_clients) > 0
          /\ Len(authenticated_clients) = Len(clients) \/ lower(response) = "yes"
    /\ Asked => Partial
    /\ (init_ret # "none" /\ Partial) => response # "none"

\* the operator accepted degraded mode with one client of several, and
\* initialize() returned true with the flag set
C32_Witness ==
    /\ pc = "ready"
    /\ initialized
    /\ init_ret = "True"
    /\ response = "Yes"
    /\ Len(authenticated_clients) = 1
    /\ Len(clients) > 1


\* ------------------------------------------------------------------------
\* C33: in the placement wrappers the trade delay runs after the raw
\* placement call, on the path where the raw call answered true and on the
\* path where it answered false, before the wrapper returns; it never runs
\* when the preconditions blocked the order.
\* ------------------------------------------------------------------------
C33_DelayAfterRaw ==
    w.pc # "idle" =>
        /\ w.delayed => w.raw_called
        /\ (w.pc = "return" /\ w.raw_called) =>
              /\ w.delayed
              /\ w.raw_ret \in {"True", "False"}
              /\ w.result = w.raw_ret
        /\ (w.pc = "return" /\ w.pre # "True") => ~w.delayed

\* a wrapper returned false after a rejected raw placement and its delay
C33_Witness ==
    /\ w.pc = "return"
    /\ w.pre = "True"
    /\ w.raw_called /\ w.raw_ret = "False"
    /\ w.delayed
    /\ w.result = "False"


\* ------------------------------------------------------------------------
\* C34: the holdings report of one client dispatches the holdings requests
\* of all its accounts together, as the balance aggregation does: once a
\* request of the client is awaited or answered, every account of the client
\* has its request awaited or answered.
\* ------------------------------------------------------------------------
C34_HoldingsFanOut ==
    (pc = "holdings" /\ hold.k <= Len(hold.sel)
        /\ hold.awaited \cup hold.logged # {}) =>
        hold.awaited \cup hold.logged = DOMAIN accounts[HoldingsClient]


\* ------------------------------------------------------------------------
\* C35: within one session, for every account and ticker at most one raw buy
\* placement is submitted, even when the confirmed trades hold the ticker
\* more than once: no two placements for the same account and ticker have
\* both passed the not-held check.  Stated for the clients whose requests
\* are suspension points (Robinhood's requests block the event loop).
\* ------------------------------------------------------------------------
TradeOf(id) == confirmed_trades[calls[id[1]].trade]
ClientOf(id) == calls[id[1]].client
Passed(id) == tasks[id].pc \in {"raw", "delay"}
Suspends(c) == clients[c] # "Robinhood"

C35_OneBuyPerAccountAndTicker ==
    \A x, y \in DOMAIN tasks :
        (/\ x # y
         /\ ClientOf(x) = ClientOf(y) /\ x[2] = y[2]
         /\ Suspends(ClientOf(x))
         /\ TradeOf(x).action = "buy" /\ TradeOf(y).action = "buy"
         /\ TradeOf(x).ticker = TradeOf(y).ticker) =>
            ~(Passed(x) /\ Passed(y))


\* ------------------------------------------------------------------------
\* C36: within one session the raw buy placements for one account never add
\* up to more than the account's balance at the start of the session: two
\* buys of different tickers for the same account have never both passed the
\* balance check when the balance does not cover both.  Stated for the
\* clients whose requests are suspension points.
\* ------------------------------------------------------------------------
C36_BuysWithinStartBalance ==
    world = Funded =>
        \A x, y \in DOMAIN tasks :
            (/\ x # y
             /\ ClientOf(x) = ClientOf(y) /\ x[2] = y[2]
             /\ Suspends(ClientOf(x))
             /\ TradeOf(x).action = "buy" /\ TradeOf(y).action = "buy"
             /\ TradeOf(x).ticker # TradeOf(y).ticker
             /\ Passed(x) /\ Passed(y)) =>
                TradeOf(x).price + TradeOf(y).price <= StartBalance(clients[ClientOf(x)])


\* ------------------------------------------------------------------------
\* C37: the client that execute_trades asks for the tradability and the
\* reference price of a ticker is always a member of the authenticated set,
\* also in a degraded run where the first declared client failed.
\* ------------------------------------------------------------------------
C37_ReferenceIsAuthenticated ==
    \A k \in DOMAIN confirm_log :
        confirm_log[k].client \in Range(authenticated_clients)


\* ------------------------------------------------------------------------
\* C38: if initialize() returned false, run() ends without offering the menu
\* and without a trade, balance, projection or holdings action; otherwise
\* run() serves menu choices until choice 0, then shutdown runs exactly once
\* and run() terminates: run() ends in no other way.
\* ------------------------------------------------------------------------
NoActionRun ==
    /\ calls = << >> /\ confirm_log = << >> /\ market_open = "none"
    /\ bidx = 0 /\ hold = NoReport

C38_RunLifecycle ==
    /\ init_ret = "False" =>
          /\ pc \in {"failed", "terminated"}
          /\ NoActionRun
          /\ shutdowns = 0
    /\ shutdowns <= 1
    /\ shutdowns = 1 <=> (pc = "terminated" /\ init_ret = "True")
    /\ pc # "crashed"


\* ------------------------------------------------------------------------
\* C39: execute_client_trades on a client whose account table is empty
\* returns (0, 0) and makes no precondition check and no placement call on
\* that client.
\* ------------------------------------------------------------------------
C39_EmptyTableReturnsZero ==
    \A k \in DOMAIN calls :
        Len(accounts[calls[k].client]) = 0 =>
            /\ calls[k].status = "returned"
            /\ calls[k].ret = <<0, 0>>
            /\ TasksOf(tasks, k) = {}

\* in an accepted batch one call went to a client without accounts while a
\* placement of another call of the batch has made its raw placement
C39_Witness ==
    /\ pc = "gather"
    /\ \E k \in DOMAIN calls :
          /\ Len(accounts[calls[k].client]) = 0
          /\ calls[k].status = "returned"
          /\ calls[k].ret = <<0, 0>>
    /\ \E id \in DOMAIN tasks : tasks[id].pc = "delay"


\* ------------------------------------------------------------------------
\* C40: for an account table with pairwise distinct identifiers,
\* get_account_number_from_id(accounts[i]) = i for every key i; for an
\* identifier that is not in the table it returns None; with duplicate
\* identifiers it returns the key inserted first.
\* ------------------------------------------------------------------------
Distinct(accts) == \A i, j \in DOMAIN accts : accts[i] = accts[j] => i = j
KeysOf(accts, account_id) == {i \in DOMAIN accts : accts[i] = account_id}

C40_NumberFromId ==
    lookup.pc = "return" =>
        LET accts == lookup.accts
            keys == KeysOf(accts, lookup.account_id)
        IN  /\ keys = {} <=> lookup.ret = None
            /\ keys # {} =>
                  /\ lookup.ret.tag = "some"
                  /\ lookup.ret.v \in keys
                  /\ \A i \in keys : lookup.ret.v <= i
            /\ Distinct(accts) =>
                  \A i \in DOMAIN accts :
                      accts[i] = lookup.account_id => lookup.ret = Some(i)

\* a table with the same identifier at keys 2 and 3 was asked for it and
\* the call returned 2
C40_Witness ==
    /\ lookup.pc = "return"
    /\ Len(lookup.accts) = 3
    /\ lookup.accts[1] # lookup.account_id
    /\ lookup.accts[2] = lookup.account_id
    /\ lookup.accts[3] = lookup.account_id
    /\ lookup.ret = Some(2)

====
